---- MODULE Spec2Model ----
(***************************************************************************)
(* A model of the reentrancy detector: severity ordering and result        *)
(* records (models.py), the orchestration, filtering and sorting of        *)
(* findings and the directory scan (detector.py), the exit code of the     *)
(* scan command (cli.py), and the structural parser, snippet query and     *)
(* pattern detectors the orchestration calls (parser.py and patterns.py,   *)
(* described in spec.md sections 4.1 - 4.3).                               *)
(***************************************************************************)
EXTENDS Integers, Sequences, FiniteSets, TLC

VARIABLES
    pc,               \* position of the running operation
    config,           \* ReentrancyDetector.config: severity_threshold, include_info
    source,           \* the source unit: per contract, its modifiers and functions
    contracts,        \* AnalysisResult.contracts: the parsed Contract list
    detected,         \* the findings before filtering, in detection order
    vulnerabilities,  \* AnalysisResult.vulnerabilities as returned
    entry,            \* which entry point ran: "file", "source" or "none"
    cmp,              \* the operands and results of a severity comparison
    text,             \* the characters the brace scanner has been given
    scan,             \* the brace scanner: mode, depth, pos, result
    input,            \* the file given to analyze_file: its checks and parse fault
    parse_errors,     \* AnalysisResult.parse_errors
    analysis_time_ms, \* AnalysisResult.analysis_time_ms: 0, or 1 once measured
    parser,           \* ReentrancyDetector.parser: the text it parsed last
    dir,              \* scan_directory: the files, the loop position, the ScanResult
    cli,              \* run_scan: the target, the arguments, the exit code
    run,              \* two analyses in progress on one detector
    snippet           \* a get_snippet query and its result

resultVars == <<input, parse_errors, analysis_time_ms, parser>>
otherVars == <<dir, cli, run, snippet>>

vars == <<pc, config, source, contracts, detected, vulnerabilities, entry, cmp, text, scan,
          input, parse_errors, analysis_time_ms, parser, dir, cli, run, snippet>>

----------------------------------------------------------------------------
(* Bounds of the model *)

MaxFindings == 3
MaxStmts == 3
MaxLoops == 1
MaxFunctions == 2
MaxText == 6

----------------------------------------------------------------------------
(* models.py: Severity *)

Severities == {"CRITICAL", "HIGH", "MEDIUM", "LOW", "INFO"}

\* the list `order` built inside Severity.__lt__
order == <<"INFO", "LOW", "MEDIUM", "HIGH", "CRITICAL">>

\* list.index: the first position holding x (0-based, as in Python)
Index(seq, x) ==
    (CHOOSE i \in 1..Len(seq) : seq[i] = x /\ \A j \in 1..(i - 1) : seq[j] # x) - 1

\* mutant: the comparison is not strict
Severity__lt__non_strict(self, other) ==
    Index(order, self) <= Index(order, other)

\* Severity.__lt__
Severity__lt__(self, other) ==
    Index(order, self) < Index(order, other)

\* Severity.__ge__
Severity__ge__(self, other) == ~Severity__lt__(self, other)

----------------------------------------------------------------------------
(* detector.py: the filter and sort stage of analyze_file / analyze_source *)

\* [v for v in vs if keep(v)], built left to right
RECURSIVE Comprehension(_, _, _)
Comprehension(vs, thr, incl) ==
    IF vs = <<>> THEN <<>>
    ELSE LET v == Head(vs)
             rest == Comprehension(Tail(vs), thr, incl)
         IN IF Severity__ge__(v.severity, thr) \/ (v.severity = "INFO" /\ incl)
            THEN <<v>> \o rest
            ELSE rest

\* mutant: the info-inclusion clause is forgotten
FilterFileNoInfo(vs, cfg) == Comprehension(vs, cfg.severity_threshold, FALSE)

\* analyze_file, lines 95-100
FilterFile(vs, cfg) == Comprehension(vs, cfg.severity_threshold, cfg.include_info)

\* mutant: analyze_source applies the info-inclusion clause too
FilterSourceWithInfo(vs, cfg) ==
    Comprehension(vs, cfg.severity_threshold, cfg.include_info)

\* analyze_source, lines 135-139: no info-inclusion clause
FilterSource(vs, cfg) == Comprehension(vs, cfg.severity_threshold, FALSE)

\* One insertion step of a stable descending sort that compares keys with <
\* only: x goes after every element that is not smaller than it.
InsertDesc(acc, x) ==
    LET n == Cardinality({i \in 1..Len(acc) : ~Severity__lt__(acc[i].severity, x.severity)})
    IN SubSeq(acc, 1, n) \o <<x>> \o SubSeq(acc, n + 1, Len(acc))

\* mutant step: x goes before the elements equal to it
InsertDescUnstable(acc, x) ==
    LET n == Cardinality({i \in 1..Len(acc) : Severity__lt__(x.severity, acc[i].severity)})
    IN SubSeq(acc, 1, n) \o <<x>> \o SubSeq(acc, n + 1, Len(acc))

RECURSIVE SortFrom(_, _)
SortFrom(acc, vs) ==
    IF vs = <<>> THEN acc ELSE SortFrom(InsertDesc(acc, Head(vs)), Tail(vs))

RECURSIVE SortFromUnstable(_, _)
SortFromUnstable(acc, vs) ==
    IF vs = <<>> THEN acc
    ELSE SortFromUnstable(InsertDescUnstable(acc, Head(vs)), Tail(vs))

\* mutant: equal severities come out in reverse detection order
SortBySeverityUnstable(vs) == SortFromUnstable(<<>>, vs)

\* vulnerabilities.sort(key=lambda v: v.severity, reverse=True): list.sort is
\* stable, also with reverse=True
SortBySeverity(vs) == SortFrom(<<>>, vs)

----------------------------------------------------------------------------
(* The structural parser (spec.md 4.2).  A source unit is a sequence of     *)
(* contracts; a contract declares modifiers and functions; a function body  *)
(* is a sequence of statements, one per line, and a set of loop spans.      *)

CallTypes == {"call", "delegatecall", "staticcall", "transfer", "send"}
TargetKinds == {"parameter", "fixed", "unresolved"}

CallStmt(ct, tk) == [kind |-> "call", call_type |-> ct, target |-> tk, variable |-> ""]
WriteStmt(v) == [kind |-> "write", call_type |-> "", target |-> "", variable |-> v]
ReadStmt(v) == [kind |-> "read", call_type |-> "", target |-> "", variable |-> v]

SrcFunction(vis, mods, body, loops) ==
    [visibility |-> vis, modifiers |-> mods, body |-> body, loops |-> loops]

SrcContract(mods, fns) == [modifiers |-> mods, functions |-> fns]

\* the line of the function header: functions follow one another in the file
HeaderLine(fi) == (fi - 1) * (MaxStmts + 2) + 1

\* the line of statement k of function fi
StmtLine(fi, k) == HeaderLine(fi) + k

\* the loop spans whose line range contains the line
Enclosing(loops, line) == {sp \in loops : sp[1] <= line /\ line <= sp[2]}

\* the innermost enclosing span: none of the others lies inside it
Innermost(loops, line) ==
    LET enc == Enclosing(loops, line)
    IN CHOOSE sp \in enc :
         \A other \in enc : ~(other # sp /\ sp[1] <= other[1] /\ other[2] <= sp[2])

NoLoop == <<0, 0>>

\* mutant: a call on the closing line of a loop is left out of the loop
ExternalCallMissesLastLine(stmt, line, loops) ==
    LET enc == {sp \in loops : sp[1] <= line /\ line < sp[2]}
    IN [line |-> line, call_type |-> stmt.call_type, target |-> stmt.target,
        in_loop |-> enc # {},
        loop_location |-> IF enc # {} THEN Innermost(loops, line) ELSE NoLoop]

\* external-call recognition and loop marking
ExternalCall(stmt, line, loops) ==
    [line |-> line, call_type |-> stmt.call_type, target |-> stmt.target,
     in_loop |-> Enclosing(loops, line) # {},
     loop_location |-> IF Enclosing(loops, line) # {}
                       THEN Innermost(loops, line) ELSE NoLoop]

\* state-change recognition
StateChange(stmt, line) == [line |-> line, variable |-> stmt.variable]

RECURSIVE CallsOf(_, _, _, _)
CallsOf(body, fi, k, loops) ==
    IF k > Len(body) THEN <<>>
    ELSE (IF body[k].kind = "call"
          THEN <<ExternalCall(body[k], StmtLine(fi, k), loops)>> ELSE <<>>)
         \o CallsOf(body, fi, k + 1, loops)

RECURSIVE ChangesOf(_, _, _)
ChangesOf(body, fi, k) ==
    IF k > Len(body) THEN <<>>
    ELSE (IF body[k].kind = "write"
          THEN <<StateChange(body[k], StmtLine(fi, k))>> ELSE <<>>)
         \o ChangesOf(body, fi, k + 1)

RECURSIVE ReadsOf(_, _)
ReadsOf(body, k) ==
    IF k > Len(body) THEN <<>>
    ELSE (IF body[k].kind = "read" THEN <<body[k].variable>> ELSE <<>>)
         \o ReadsOf(body, k + 1)

\* function recognition: the Function record of spec.md section 3
ParseFunction(f, fi) ==
    [name |-> fi,
     line |-> HeaderLine(fi),
     visibility |-> f.visibility,
     modifiers |-> f.modifiers,
     external_calls |-> CallsOf(f.body, fi, 1, f.loops),
     state_changes |-> ChangesOf(f.body, fi, 1),
     state_reads |-> ReadsOf(f.body, 1)]

\* hasReentrancyModifier(contract): the contract declares a modifier whose
\* body has the check / set / placeholder / reset shape
has_reentrancy_modifier(c) == \E m \in c.modifiers : m.guard_shape

ParseContract(c, ci) ==
    [name |-> ci,
     modifiers |-> c.modifiers,
     functions |-> [fi \in 1..Len(c.functions) |-> ParseFunction(c.functions[fi], fi)],
     has_reentrancy_guard |-> has_reentrancy_modifier(c)]

\* parse(source): the contracts in declaration order
parse(src) == [ci \in 1..Len(src) |-> ParseContract(src[ci], ci)]

----------------------------------------------------------------------------
(* The pattern detection engine (spec.md 4.3).  A finding names its         *)
(* contract, its function (0: a contract-level finding, which names a pair  *)
(* of functions instead), and by index the external call and state change  *)
(* it refers to (0: none).                                                  *)

NoPair == <<0, 0>>

Vulnerability(vt, sev, ci, fi, call, change, other, var, conf) ==
    [vuln_type |-> vt, severity |-> sev, contract_name |-> ci, function_name |-> fi,
     external_call |-> call, state_change |-> change, pair |-> other,
     variable |-> var, confidence |-> conf]

\* mutant: every state change of the function counts, whatever its line
LaterChangesAnyOrder(f, k) == 1..Len(f.state_changes)

\* the state changes on a line after the call's line
LaterChanges(f, k) ==
    {j \in 1..Len(f.state_changes) :
        f.external_calls[k].line < f.state_changes[j].line}

Min(S) == CHOOSE x \in S : \A y \in S : x <= y

\* Detector 1, state-change-after-call: one finding per external call that
\* has a later state change, naming the first such change
RECURSIVE StateChangeAfterCallFrom(_, _, _)
StateChangeAfterCallFrom(f, c, k) ==
    IF k > Len(f.external_calls) THEN <<>>
    ELSE (IF LaterChanges(f, k) # {}
          THEN <<Vulnerability("state_change_after_call", "CRITICAL", c.name, f.name,
                               k, Min(LaterChanges(f, k)), NoPair, "", "high")>>
          ELSE <<>>)
         \o StateChangeAfterCallFrom(f, c, k + 1)

detect_state_change_after_call(f, c) == StateChangeAfterCallFrom(f, c, 1)

\* Detector 2, external-call-in-loop: one finding per call marked in_loop; a
\* call whose loop_location is missing is treated as not in a loop
RECURSIVE ExternalCallInLoopFrom(_, _, _)
ExternalCallInLoopFrom(f, c, k) ==
    IF k > Len(f.external_calls) THEN <<>>
    ELSE (IF f.external_calls[k].in_loop /\ f.external_calls[k].loop_location # NoLoop
          THEN <<Vulnerability("external_call_in_loop", "HIGH", c.name, f.name,
                               k, 0, NoPair, "", "high")>>
          ELSE <<>>)
         \o ExternalCallInLoopFrom(f, c, k + 1)

detect_external_call_in_loop(f, c) == ExternalCallInLoopFrom(f, c, 1)

\* a modifier of the function that the contract declares with the guard shape
UsesGuard(f, c) ==
    \E i \in 1..Len(f.modifiers) :
        \E m \in c.modifiers : m.name = f.modifiers[i] /\ m.guard_shape

\* Detector 3, missing-reentrancy-guard: one finding per function
detect_missing_reentrancy_guard(f, c) ==
    IF /\ Len(f.external_calls) >= 1
       /\ Len(f.state_changes) >= 1
       /\ f.visibility \in {"public", "external"}
       /\ ~UsesGuard(f, c)
    THEN <<Vulnerability("missing_reentrancy_guard", "MEDIUM", c.name, f.name,
                         0, 0, NoPair, "", "high")>>
    ELSE <<>>

\* Detector 4, delegatecall-reentrancy: one finding per delegatecall whose
\* target is not a fixed reference; an unresolved target lowers the confidence
RECURSIVE DelegatecallFrom(_, _, _)
DelegatecallFrom(f, c, k) ==
    IF k > Len(f.external_calls) THEN <<>>
    ELSE (IF /\ f.external_calls[k].call_type = "delegatecall"
             /\ f.external_calls[k].target # "fixed"
          THEN <<Vulnerability("delegatecall_reentrancy", "HIGH", c.name, f.name,
                               k, 0, NoPair, "",
                               IF f.external_calls[k].target = "unresolved"
                               THEN "medium" ELSE "high")>>
          ELSE <<>>)
         \o DelegatecallFrom(f, c, k + 1)

detect_delegatecall_reentrancy(f, c) == DelegatecallFrom(f, c, 1)

\* the identifiers a function writes, and those it reads or writes
Written(f) == {f.state_changes[j].variable : j \in 1..Len(f.state_changes)}
Touched(f) == Written(f) \cup {f.state_reads[j] : j \in 1..Len(f.state_reads)}

\* an external call textually precedes a write of the function to the identifier
CallBeforeWrite(f, id) ==
    \E k \in 1..Len(f.external_calls), j \in 1..Len(f.state_changes) :
        /\ f.state_changes[j].variable = id
        /\ f.external_calls[k].line < f.state_changes[j].line

\* the pair (f, g) qualifies for identifier id
CrossQualifies(f, g, c, id) ==
    /\ id \in Touched(f) \cap Touched(g)
    /\ \/ CallBeforeWrite(f, id) /\ ~UsesGuard(g, c)
       \/ CallBeforeWrite(g, id) /\ ~UsesGuard(f, c)

\* the identifiers in the order they are reported
Identifiers == <<"x", "y">>

RECURSIVE CrossIdsFrom(_, _, _, _)
CrossIdsFrom(c, i, j, n) ==
    IF n > Len(Identifiers) THEN <<>>
    ELSE (IF CrossQualifies(c.functions[i], c.functions[j], c, Identifiers[n])
          THEN <<Vulnerability("cross_function_reentrancy", "MEDIUM", c.name, 0,
                               0, 0, <<i, j>>, Identifiers[n], "high")>>
          ELSE <<>>)
         \o CrossIdsFrom(c, i, j, n + 1)

\* the pairs (i, j) with i < j, in order
RECURSIVE CrossPairsFrom(_, _, _)
CrossPairsFrom(c, i, j) ==
    IF i > Len(c.functions) THEN <<>>
    ELSE IF j > Len(c.functions) THEN CrossPairsFrom(c, i + 1, i + 2)
    ELSE CrossIdsFrom(c, i, j, 1) \o CrossPairsFrom(c, i, j + 1)

\* Detector 5, cross-function-reentrancy: one finding per unordered pair of
\* distinct functions per shared identifier
detect_cross_function_reentrancy(c) == CrossPairsFrom(c, 1, 2)

----------------------------------------------------------------------------
(* detector.py: _analyze_contract and the loop over the parsed contracts *)

\* patterns 1 to 4 on one function, each extending the list in turn
PatternsOf(f, c) ==
    detect_state_change_after_call(f, c)
    \o detect_external_call_in_loop(f, c)
    \o detect_missing_reentrancy_guard(f, c)
    \o detect_delegatecall_reentrancy(f, c)

\* mutant bodies of the loop: a pattern's findings are not added, pattern 1 is
\* run after pattern 2, or the contract-level pattern is run inside the loop
PatternsOfMutant(f, c, m) ==
    (IF m \in {"drop1", "late1"} THEN <<>> ELSE detect_state_change_after_call(f, c))
    \o detect_external_call_in_loop(f, c)
    \o (IF m = "late1" THEN detect_state_change_after_call(f, c) ELSE <<>>)
    \o (IF m = "drop3" THEN <<>> ELSE detect_missing_reentrancy_guard(f, c))
    \o (IF m = "drop4" THEN <<>> ELSE detect_delegatecall_reentrancy(f, c))
    \o (IF m = "cross_in_loop" THEN detect_cross_function_reentrancy(c) ELSE <<>>)

RECURSIVE FunctionLoopMutant(_, _, _)
FunctionLoopMutant(c, fi, m) ==
    IF fi > Len(c.functions) THEN <<>>
    ELSE PatternsOfMutant(c.functions[fi], c, m) \o FunctionLoopMutant(c, fi + 1, m)

\* for function in contract.functions
RECURSIVE FunctionLoop(_, _)
FunctionLoop(c, fi) ==
    IF fi > Len(c.functions) THEN <<>>
    ELSE PatternsOf(c.functions[fi], c) \o FunctionLoop(c, fi + 1)

\* mutant: the findings of pattern 1 are not added to the list
_analyze_contract_drops_pattern1(c) ==
    FunctionLoopMutant(c, 1, "drop1") \o detect_cross_function_reentrancy(c)

\* mutant: the findings of pattern 3 are not added to the list
_analyze_contract_drops_pattern3(c) ==
    FunctionLoopMutant(c, 1, "drop3") \o detect_cross_function_reentrancy(c)

\* mutant: the findings of pattern 4 are not added to the list
_analyze_contract_drops_pattern4(c) ==
    FunctionLoopMutant(c, 1, "drop4") \o detect_cross_function_reentrancy(c)

\* mutant: pattern 1 is run after pattern 2
_analyze_contract_pattern1_late(c) ==
    FunctionLoopMutant(c, 1, "late1") \o detect_cross_function_reentrancy(c)

\* mutant: pattern 5 is indented into the loop over the functions
_analyze_contract_cross_in_loop(c) == FunctionLoopMutant(c, 1, "cross_in_loop")

\* _analyze_contract
_analyze_contract(c) == FunctionLoop(c, 1) \o detect_cross_function_reentrancy(c)

\* for contract in contracts: result.vulnerabilities.extend(...)
RECURSIVE AnalyzeEachContract(_, _)
AnalyzeEachContract(cs, ci) ==
    IF ci > Len(cs) THEN <<>>
    ELSE _analyze_contract(cs[ci]) \o AnalyzeEachContract(cs, ci + 1)

----------------------------------------------------------------------------
(* The parser instance of a detector (detector.py: self.parser) and the      *)
(* snippet query (spec.md 4.2).  The instance keeps the source text it was   *)
(* last given; get_code_snippet takes a line and a context only and reads    *)
(* that text.                                                                *)

\* the parser before any parse
NoParser == [source |-> <<>>]

Max2(a, b) == IF a >= b THEN a ELSE b
Min2(a, b) == IF a <= b THEN a ELSE b

\* the number of lines a contract and a source unit take in the file
ContractLines(c) == Len(c.functions) * (MaxStmts + 2)

RECURSIVE LinesBefore(_, _)
LinesBefore(src, ci) ==
    IF ci <= 1 THEN 0 ELSE LinesBefore(src, ci - 1) + ContractLines(src[ci - 1])

NumLines(src) == LinesBefore(src, Len(src) + 1)

\* the text of a line that holds no statement, of a function header and of
\* the line that closes a function
BlankLine == [kind |-> "blank", call_type |-> "", target |-> "", variable |-> ""]
HeaderText(f) ==
    [kind |-> "function", call_type |-> "", target |-> "", variable |-> f.visibility]
CloseLine == [kind |-> "close", call_type |-> "", target |-> "", variable |-> ""]

\* the lines of a function: its header, MaxStmts statement lines, its close
FunctionText(f) ==
    <<HeaderText(f)>>
    \o [k \in 1..MaxStmts |-> IF k <= Len(f.body) THEN f.body[k] ELSE BlankLine]
    \o <<CloseLine>>

RECURSIVE FunctionsText(_, _)
FunctionsText(fs, fi) ==
    IF fi > Len(fs) THEN <<>> ELSE FunctionText(fs[fi]) \o FunctionsText(fs, fi + 1)

RECURSIVE TextOf(_, _)
TextOf(src, ci) ==
    IF ci > Len(src) THEN <<>>
    ELSE FunctionsText(src[ci].functions, 1) \o TextOf(src, ci + 1)

\* the lines of the text the parser holds
SourceLines(p) == TextOf(p.source, 1)

EmptySnippet == [code |-> <<>>, start_line |-> 0, highlight_lines |-> {}]

\* mutant: the window is not clipped at the end of the text
get_code_snippet_unclipped(p, line, context) ==
    [code |-> [i \in 1..(line + context - Max2(1, line - context) + 1) |->
                  IF Max2(1, line - context) + i - 1 <= NumLines(p.source)
                  THEN SourceLines(p)[Max2(1, line - context) + i - 1]
                  ELSE BlankLine],
     start_line |-> Max2(1, line - context),
     highlight_lines |-> {line}]

\* getCodeSnippet(line, contextLines): the window of the held text around line
get_code_snippet(p, line, context) ==
    IF line < 1 \/ line > NumLines(p.source) THEN EmptySnippet
    ELSE [code |-> SubSeq(SourceLines(p), Max2(1, line - context),
                          Min2(NumLines(p.source), line + context)),
          start_line |-> Max2(1, line - context),
          highlight_lines |-> {line}]

\* context: int = 3
DefaultContext == 3

\* mutant: the line and the context are passed in the wrong order
get_snippet_swapped(p, line, context) == get_code_snippet(p, context, line)

\* def get_snippet(line, context=3): return self.parser.get_code_snippet(line, context)
get_snippet(p, line, context) == get_code_snippet(p, line, context)

\* the line of the file a finding points at: its external call, else its
\* function header, else (contract-level) the header of the first function
\* of its pair
LocationLine(v, cs) ==
    LET c == cs[v.contract_name]
        f == c.functions[IF v.function_name = 0 THEN v.pair[1] ELSE v.function_name]
    IN LinesBefore(cs, v.contract_name)
       + (IF v.function_name # 0 /\ v.external_call # 0
          THEN f.external_calls[v.external_call].line ELSE f.line)

\* the findings with the snippet each detector attaches through get_snippet
AttachSnippets(vs, cs, p) ==
    [i \in 1..Len(vs) |->
        [vuln_type |-> vs[i].vuln_type, severity |-> vs[i].severity,
         contract_name |-> vs[i].contract_name, function_name |-> vs[i].function_name,
         external_call |-> vs[i].external_call, state_change |-> vs[i].state_change,
         pair |-> vs[i].pair, variable |-> vs[i].variable,
         confidence |-> vs[i].confidence,
         code_snippet |-> get_snippet(p, LocationLine(vs[i], cs), DefaultContext)]]

----------------------------------------------------------------------------
(* detector.py: analyze_file and analyze_source as functions of the parser  *)
(* state they start from, the unit they are given and the configuration.    *)

\* AnalysisResult: analysis_time_ms is 0 until measured, 1 once measured
AnalysisResult(path, cs, vs, errors, time) ==
    [file_path |-> path, contracts |-> cs, vulnerabilities |-> vs,
     parse_errors |-> errors, analysis_time_ms |-> time]

\* mutant: the contracts of the text parsed before stay in the parser's list
SolidityParser_parse_accumulating(p, src, fault) ==
    [parser |-> [source |-> src],
     raised |-> fault # 0,
     contracts |-> IF fault = 0 THEN parse(p.source \o src) ELSE <<>>,
     partial |-> IF fault = 0 THEN <<>> ELSE parse(SubSeq(src, 1, fault - 1))]

\* self.parser.parse(source_code): the parser takes the text; it raises
\* ParseError when the body of contract number fault cannot be delimited,
\* having recognised the contracts before it
SolidityParser_parse(p, src, fault) ==
    [parser |-> [source |-> src],
     raised |-> fault # 0,
     contracts |-> IF fault = 0 THEN parse(src) ELSE <<>>,
     partial |-> IF fault = 0 THEN <<>> ELSE parse(SubSeq(src, 1, fault - 1))]

\* an early return: result.parse_errors.append(...); return result
Failed(path, msg, p) ==
    [result |-> AnalysisResult(path, <<>>, <<>>, <<msg>>, 0), detected |-> <<>>,
     parser |-> p]

\* mutant: the contracts recognised before the failure are put in the result
OnParseErrorKeepsPartial(path, pr) ==
    [result |-> AnalysisResult(path, pr.partial, <<>>, <<"Parse error">>, 0),
     detected |-> <<>>, parser |-> pr.parser]

\* except Exception as e: result.parse_errors.append(f"Parse error: {e}")
OnParseError(path, pr) == Failed(path, "Parse error", pr.parser)

\* mutant: the capability query stores the negation of what parsing stored
GuardCachedInverted(c) == [c EXCEPT !.has_reentrancy_guard = ~has_reentrancy_modifier(c)]

\* hasReentrancyModifier as the detectors call it: the result is also stored
\* on Contract.has_reentrancy_guard
GuardCached(c) == [c EXCEPT !.has_reentrancy_guard = has_reentrancy_modifier(c)]

\* the contract objects after detection: pattern 3 has queried the guard of
\* every contract that has a function
AfterDetection(cs) ==
    [ci \in 1..Len(cs) |->
        IF Len(cs[ci].functions) > 0 THEN GuardCached(cs[ci]) ELSE cs[ci]]

\* detection, filter and sort after a successful parse
RunDetection(path, pr, cfg, kind) ==
    LET found == AttachSnippets(AnalyzeEachContract(pr.contracts, 1),
                                pr.contracts, pr.parser)
        kept == IF kind = "file" THEN FilterFile(found, cfg)
                ELSE FilterSource(found, cfg)
    IN [result |-> AnalysisResult(path, AfterDetection(pr.contracts),
                                  SortBySeverity(kept), <<>>, 1),
        detected |-> found, parser |-> pr.parser]

\* analyze_source(source_code)
AnalyzeSource(p, name, src, fault, cfg) ==
    LET pr == SolidityParser_parse(p, src, fault)
    IN IF pr.raised THEN OnParseError(name, pr)
       ELSE RunDetection(name, pr, cfg, "source")

\* mutant: the size is checked before the suffix
AnalyzeFileSizeFirst(p, name, inp, src, cfg) ==
    IF ~inp.exists THEN Failed(name, "File not found", p)
    ELSE IF inp.too_large THEN Failed(name, "File too large", p)
    ELSE IF ~inp.is_sol THEN Failed(name, "Not a Solidity file", p)
    ELSE IF ~inp.readable THEN Failed(name, "Error reading file", p)
    ELSE LET pr == SolidityParser_parse(p, src, inp.fault)
         IN IF pr.raised THEN OnParseError(name, pr)
            ELSE RunDetection(name, pr, cfg, "file")

\* analyze_file(file_path): the checks in the order of the code
AnalyzeFile(p, name, inp, src, cfg) ==
    IF ~inp.exists THEN Failed(name, "File not found", p)
    ELSE IF ~inp.is_sol THEN Failed(name, "Not a Solidity file", p)
    ELSE IF inp.too_large THEN Failed(name, "File too large", p)
    ELSE IF ~inp.readable THEN Failed(name, "Error reading file", p)
    ELSE LET pr == SolidityParser_parse(p, src, inp.fault)
         IN IF pr.raised THEN OnParseError(name, pr)
            ELSE RunDetection(name, pr, cfg, "file")

----------------------------------------------------------------------------
(* Idle values of the variables a specification does not use *)

NoCmp == [a |-> "INFO", b |-> "INFO", c |-> "INFO", done |-> FALSE,
          lt_ab |-> FALSE, lt_ba |-> FALSE, lt_bc |-> FALSE, lt_ac |-> FALSE,
          ge_ab |-> FALSE, eq_ab |-> FALSE]
NoScan == [mode |-> "idle", depth |-> 0, pos |-> 0, open |-> "{", close |-> "}",
           start |-> 0, result |-> "none", end |-> 0]
DefaultConfig == [severity_threshold |-> "LOW", include_info |-> FALSE]

Configs == [severity_threshold : Severities, include_info : BOOLEAN]

\* an existing, small, readable .sol file whose text parses
GoodInput == [exists |-> TRUE, is_sol |-> TRUE, too_large |-> FALSE,
              readable |-> TRUE, fault |-> 0]

NoDir == [files |-> <<>>, sol_files |-> <<>>, iterated |-> 0, results |-> <<>>,
          files_scanned |-> 0, total_contracts |-> 0]
NoCli == [target |-> "none", severity |-> "low", raises |-> FALSE, exit_code |-> -1,
          reported |-> <<>>, errors |-> <<>>]
NoRun == <<>>
NoSnippet == [line |-> 0, context |-> 0, result |-> EmptySnippet]

IdleResult ==
    /\ input = GoodInput
    /\ parse_errors = <<>>
    /\ analysis_time_ms = 0
    /\ parser = NoParser

IdleOther ==
    /\ dir = NoDir
    /\ cli = NoCli
    /\ run = NoRun
    /\ snippet = NoSnippet

----------------------------------------------------------------------------
(* Specification Spec: one source unit is parsed and analysed by            *)
(* analyze_file or analyze_source.                                          *)

CallP == CallStmt("call", "parameter")
WriteX == WriteStmt("x")
WriteY == WriteStmt("y")
ReadX == ReadStmt("x")

GuardDecl == [name |-> "nonReentrant", guard_shape |-> TRUE]
OwnerDecl == [name |-> "onlyOwner", guard_shape |-> FALSE]

Visibilities == {"public", "external", "internal", "private"}

\* the lines a statement of the first function can be on
BodyLines == StmtLine(1, 1)..StmtLine(1, MaxStmts)
Spans == {sp \in BodyLines \X BodyLines : sp[1] <= sp[2]}
LoopSets == {L \in SUBSET Spans : Cardinality(L) <= MaxLoops}

RECURSIVE SeqsUpTo(_, _)
SeqsUpTo(S, n) ==
    IF n = 0 THEN {<<>>}
    ELSE LET shorter == SeqsUpTo(S, n - 1)
         IN shorter \cup {Append(s, x) : s \in {t \in shorter : Len(t) = n - 1}, x \in S}

OneFunction(decls, f) == <<SrcContract(decls, <<f>>)>>

\* calls and writes in any order
UnitsStmts ==
    {OneFunction({}, SrcFunction("external", <<>>, b, {})) :
        b \in SeqsUpTo({CallP, WriteX, WriteY}, MaxStmts)}

\* calls and writes inside and outside loops
UnitsLoops ==
    {OneFunction({}, SrcFunction("external", <<>>, b, L)) :
        b \in SeqsUpTo({CallP, WriteX}, MaxStmts), L \in LoopSets}

\* visibilities, modifier lists and declared modifiers
UnitsGuard ==
    {OneFunction(d, SrcFunction(v, m, b, {})) :
        d \in SUBSET {GuardDecl, OwnerDecl},
        v \in Visibilities,
        m \in {<<>>, <<"nonReentrant">>, <<"onlyOwner">>, <<"onlyOwner", "nonReentrant">>},
        b \in {<<>>, <<CallP>>, <<WriteX>>, <<CallP, WriteX>>, <<WriteX, CallP>>}}

\* every call type on every kind of target
UnitsCalls ==
    {OneFunction({}, SrcFunction("external", <<>>, b, {})) :
        b \in SeqsUpTo({CallStmt(ct, tk) : ct \in CallTypes, tk \in TargetKinds}, 2)}

\* several functions sharing identifiers
CrossFunctions ==
    {SrcFunction("external", m, b, {}) :
        m \in {<<>>, <<"nonReentrant">>},
        b \in {<<>>, <<CallP, WriteX>>, <<WriteX, CallP>>, <<WriteX>>, <<ReadX>>,
               <<WriteY>>, <<CallP, WriteY, WriteX>>}}

UnitsCross ==
    {<<SrcContract({GuardDecl}, fs)>> : fs \in SeqsUpTo(CrossFunctions, MaxFunctions)}

\* two contracts in one unit
UnitsTwo ==
    LET cs == {SrcContract({}, <<SrcFunction("external", <<>>, b, {})>>) :
                  b \in {<<>>, <<CallP, WriteX>>, <<WriteX, CallP>>}}
    IN {<<c1, c2>> : c1 \in cs, c2 \in cs}

Sources == UnitsStmts \cup UnitsLoops \cup UnitsGuard \cup UnitsCalls
           \cup UnitsCross \cup UnitsTwo

\* the conditions a file can be in: each check of analyze_file can fail
FileConditions(src) ==
    [exists : BOOLEAN, is_sol : BOOLEAN, too_large : BOOLEAN, readable : BOOLEAN,
     fault : 0..Len(src)]

\* the inputs explored for a source unit: every place the parse can fail, and
\* for the two-contract units every combination of failing checks
InputsOf(src) ==
    {[GoodInput EXCEPT !.fault = k] : k \in 0..Len(src)}
    \cup (IF src \in UnitsTwo THEN FileConditions(src) ELSE {})

\* filename: str = "contract.sol"
UnitName == "contract.sol"

Init ==
    /\ pc = "ready"
    /\ config \in Configs
    /\ source \in Sources
    /\ input \in InputsOf(source)
    /\ contracts = <<>>
    /\ detected = <<>>
    /\ vulnerabilities = <<>>
    /\ parse_errors = <<>>
    /\ analysis_time_ms = 0
    /\ parser = NoParser
    /\ entry = "none"
    /\ cmp = NoCmp
    /\ text = <<>>
    /\ scan = NoScan
    /\ IdleOther

\* analyze_file on the file holding the source unit
analyze_file ==
    /\ pc = "ready"
    /\ LET a == AnalyzeFile(parser, UnitName, input, source, config)
       IN /\ contracts' = a.result.contracts
          /\ detected' = a.detected
          /\ vulnerabilities' = a.result.vulnerabilities
          /\ parse_errors' = a.result.parse_errors
          /\ analysis_time_ms' = a.result.analysis_time_ms
          /\ parser' = a.parser
    /\ entry' = "file"
    /\ pc' = "returned"
    /\ UNCHANGED <<config, source, input, cmp, text, scan, otherVars>>

\* analyze_source on the text of the source unit
analyze_source ==
    /\ pc = "ready"
    /\ LET a == AnalyzeSource(parser, UnitName, source, input.fault, config)
       IN /\ contracts' = a.result.contracts
          /\ detected' = a.detected
          /\ vulnerabilities' = a.result.vulnerabilities
          /\ parse_errors' = a.result.parse_errors
          /\ analysis_time_ms' = a.result.analysis_time_ms
          /\ parser' = a.parser
    /\ entry' = "source"
    /\ pc' = "returned"
    /\ UNCHANGED <<config, source, input, cmp, text, scan, otherVars>>

Next == analyze_file \/ analyze_source

Spec == Init /\ [][Next]_vars

----------------------------------------------------------------------------
(* Specification SpecFilter: the filter and sort stage over any list of     *)
(* findings the detection stage may hand over.                              *)

\* a finding of the given severity, the id-th the detectors produced
Finding(id, sev) == [id |-> id, severity |-> sev]

FindingLists ==
    {[i \in 1..Len(s) |-> Finding(i, s[i])] : s \in SeqsUpTo(Severities, MaxFindings)}

InitFilter ==
    /\ pc = "detected"
    /\ config \in Configs
    /\ source = <<>>
    /\ contracts = <<>>
    /\ detected \in FindingLists
    /\ vulnerabilities = <<>>
    /\ entry = "none"
    /\ cmp = NoCmp
    /\ text = <<>>
    /\ scan = NoScan
    /\ IdleResult
    /\ IdleOther

\* analyze_file lines 95-103 applied to a list of findings
ApplyFilterSortFile ==
    /\ pc = "detected"
    /\ vulnerabilities' = SortBySeverity(FilterFile(detected, config))
    /\ entry' = "file"
    /\ pc' = "returned"
    /\ UNCHANGED <<config, source, contracts, detected, cmp, text, scan, resultVars, otherVars>>

\* analyze_source lines 135-140 applied to a list of findings
ApplyFilterSortSource ==
    /\ pc = "detected"
    /\ vulnerabilities' = SortBySeverity(FilterSource(detected, config))
    /\ entry' = "source"
    /\ pc' = "returned"
    /\ UNCHANGED <<config, source, contracts, detected, cmp, text, scan, resultVars, otherVars>>

NextFilter == ApplyFilterSortFile \/ ApplyFilterSortSource

SpecFilter == InitFilter /\ [][NextFilter]_vars

----------------------------------------------------------------------------
(* Specification SpecSeverity: comparisons of any three severities.         *)

InitSeverity ==
    /\ pc = "compare"
    /\ config = DefaultConfig
    /\ source = <<>>
    /\ contracts = <<>>
    /\ detected = <<>>
    /\ vulnerabilities = <<>>
    /\ entry = "none"
    /\ cmp = NoCmp
    /\ text = <<>>
    /\ scan = NoScan
    /\ IdleResult
    /\ IdleOther

Compare ==
    /\ pc = "compare"
    /\ \E a \in Severities, b \in Severities, c \in Severities :
         cmp' = [a |-> a, b |-> b, c |-> c, done |-> TRUE,
                 lt_ab |-> Severity__lt__(a, b), lt_ba |-> Severity__lt__(b, a),
                 lt_bc |-> Severity__lt__(b, c), lt_ac |-> Severity__lt__(a, c),
                 ge_ab |-> Severity__ge__(a, b), eq_ab |-> (a = b)]
    /\ pc' = "compared"
    /\ UNCHANGED <<config, source, contracts, detected, vulnerabilities, entry, text, scan, resultVars, otherVars>>

NextSeverity == Compare

SpecSeverity == InitSeverity /\ [][NextSeverity]_vars

----------------------------------------------------------------------------
(* The lexer / brace scanner (spec.md 4.1): extractBalanced as a scanner    *)
(* that reads one character at a time and tracks whether it is in normal    *)
(* text, inside a string or character literal, or inside a comment.         *)

NormalModes == {"normal", "slash"}
StringModes == {"string", "char"}
CommentModes == {"line_comment", "block_comment", "block_star"}

\* the scanner after a character read in normal text
NormalStep(sc, c) ==
    CASE c = "/" -> [sc EXCEPT !.mode = "slash"]
      [] c = "\"" -> [sc EXCEPT !.mode = "string"]
      [] c = "'" -> [sc EXCEPT !.mode = "char"]
      [] c = sc.open -> [sc EXCEPT !.mode = "normal", !.depth = @ + 1]
      [] c = sc.close -> [sc EXCEPT !.mode = "normal", !.depth = @ - 1]
      [] OTHER -> [sc EXCEPT !.mode = "normal"]

\* mutant: the depth is counted over every character, literals and comments
\* included
ScanStepNaive(sc, c) ==
    [NormalStep(sc, c) EXCEPT !.mode = "normal"]

\* the scanner after reading character c
ScanStep(sc, c) ==
    CASE sc.mode = "normal" -> NormalStep(sc, c)
      [] sc.mode = "slash" ->
           IF c = "/" THEN [sc EXCEPT !.mode = "line_comment"]
           ELSE IF c = "*" THEN [sc EXCEPT !.mode = "block_comment"]
           ELSE NormalStep(sc, c)
      [] sc.mode = "string" ->
           IF c = "\"" THEN [sc EXCEPT !.mode = "normal"] ELSE sc
      [] sc.mode = "char" ->
           IF c = "'" THEN [sc EXCEPT !.mode = "normal"] ELSE sc
      [] sc.mode = "line_comment" ->
           IF c = "\n" THEN [sc EXCEPT !.mode = "normal"] ELSE sc
      [] sc.mode = "block_comment" ->
           IF c = "*" THEN [sc EXCEPT !.mode = "block_star"] ELSE sc
      [] sc.mode = "block_star" ->
           IF c = "/" THEN [sc EXCEPT !.mode = "normal"]
           ELSE IF c = "*" THEN sc
           ELSE [sc EXCEPT !.mode = "block_comment"]

\* the scanner after the character at the next position: the span ends at the
\* closer that brings the depth back to zero
Advance(sc, c) ==
    LET nxt == [ScanStep(sc, c) EXCEPT !.pos = sc.pos + 1]
    IN IF nxt.depth = 0
       THEN [nxt EXCEPT !.result = "found", !.end = nxt.pos]
       ELSE nxt

BracketPairs == {<<"{", "}">>, <<"(", ")">>}

\* the characters a source text is made of; a line break stands for every
\* character that means nothing to the scanner
Alphabet(sc) == {sc.open, sc.close, "\"", "'", "/", "*", "\n"}

----------------------------------------------------------------------------
(* Specification SpecScan: extractBalanced on any text.                     *)

InitScan ==
    /\ pc = "extract"
    /\ config = DefaultConfig
    /\ source = <<>>
    /\ contracts = <<>>
    /\ detected = <<>>
    /\ vulnerabilities = <<>>
    /\ entry = "none"
    /\ cmp = NoCmp
    /\ text = <<>>
    /\ scan = NoScan
    /\ IdleResult
    /\ IdleOther

\* extractBalanced(text, openIndex, openChar, closeChar) is called: the opener
\* is at openIndex, after any text that came before it
BeginExtract ==
    /\ pc = "extract"
    /\ scan.mode = "idle"
    /\ \E pair \in BracketPairs, before \in {<<>>, <<"\n">>} :
         /\ text' = before \o <<pair[1]>>
         /\ scan' = [mode |-> "normal", depth |-> 0, pos |-> Len(before),
                     open |-> pair[1], close |-> pair[2], start |-> Len(before) + 1,
                     result |-> "scanning", end |-> 0]
    /\ UNCHANGED <<pc, config, source, contracts, detected, vulnerabilities, entry, cmp, resultVars, otherVars>>

\* the scanner reads the next character of the text
ReadChar ==
    /\ pc = "extract"
    /\ scan.result = "scanning"
    /\ \/ /\ scan.pos < Len(text)
          /\ scan' = Advance(scan, text[scan.pos + 1])
          /\ text' = text
       \/ /\ scan.pos = Len(text)
          /\ Len(text) - scan.start < MaxText
          /\ \E c \in Alphabet(scan) :
               /\ text' = Append(text, c)
               /\ scan' = Advance(scan, c)
    /\ UNCHANGED <<pc, config, source, contracts, detected, vulnerabilities, entry, cmp, resultVars, otherVars>>

\* the text ends before the span is closed: a fatal parse error
EndOfInput ==
    /\ pc = "extract"
    /\ scan.result = "scanning"
    /\ scan.pos = Len(text)
    /\ scan' = [scan EXCEPT !.result = "parse_error"]
    /\ pc' = "failed"
    /\ UNCHANGED <<text, config, source, contracts, detected, vulnerabilities, entry, cmp, resultVars, otherVars>>

NextScan == BeginExtract \/ ReadChar \/ EndOfInput

SpecScan == InitScan /\ [][NextScan]_vars

----------------------------------------------------------------------------
(* Specification SpecDir: scan_directory analyses the .sol files of a        *)
(* directory one after the other with the detector's one parser.            *)

MaxFiles == 3

\* a .sol file found under the directory: glob('*.sol') yields existing files
\* with the suffix; excluded says that an exclude pattern occurs in its path
DirFile(src, large, readable, fault, excluded) ==
    [source |-> src, excluded |-> excluded,
     input |-> [exists |-> TRUE, is_sol |-> TRUE, too_large |-> large,
                readable |-> readable, fault |-> fault]]

\* a call followed by a state change: a CRITICAL and a MEDIUM finding
UnitCritical == <<SrcContract({}, <<SrcFunction("external", <<>>, <<CallP, WriteX>>, {})>>)>>
\* a state change followed by a call: a MEDIUM finding only
UnitMedium == <<SrcContract({}, <<SrcFunction("external", <<>>, <<WriteX, CallP>>, {})>>)>>
\* no external call: no finding
UnitClean == <<SrcContract({}, <<SrcFunction("external", <<>>, <<WriteX>>, {})>>)>>
\* two contracts
UnitPair == UnitMedium \o UnitCritical

DirFiles ==
    {DirFile(src, FALSE, TRUE, 0, FALSE) :
        src \in {UnitCritical, UnitMedium, UnitClean, UnitPair}}
    \cup {DirFile(UnitCritical, TRUE, TRUE, 0, FALSE),
          DirFile(UnitCritical, FALSE, FALSE, 0, FALSE),
          DirFile(UnitCritical, FALSE, TRUE, 1, FALSE),
          DirFile(UnitPair, FALSE, TRUE, 2, FALSE),
          DirFile(UnitCritical, FALSE, TRUE, 0, TRUE)}

\* the files in the order the directory lists them, named by their position
Named(fs) ==
    [i \in 1..Len(fs) |->
        [name |-> i, source |-> fs[i].source, excluded |-> fs[i].excluded,
         input |-> fs[i].input]]

Directories == {Named(fs) : fs \in SeqsUpTo(DirFiles, MaxFiles)}

\* sol_files = [f for f in sol_files if not should_exclude(f)]
RECURSIVE NotExcluded(_)
NotExcluded(fs) ==
    IF fs = <<>> THEN <<>>
    ELSE (IF Head(fs).excluded THEN <<>> ELSE <<Head(fs)>>) \o NotExcluded(Tail(fs))

\* mutant: a file that could not be analysed gets no result of its own
ScanOneSkipsFailed(d, f, cfg, p) ==
    LET a == AnalyzeFile(p, f.name, f.input, f.source, cfg)
    IN [dir |-> IF a.result.parse_errors # <<>> THEN d
                ELSE [d EXCEPT !.results = Append(@, a.result),
                               !.files_scanned = @ + 1,
                               !.total_contracts = @ + Len(a.result.contracts)],
        parser |-> a.parser]

\* mutant: files_scanned counts only the files that were analysed without error
ScanOneCountsParsedOnly(d, f, cfg, p) ==
    LET a == AnalyzeFile(p, f.name, f.input, f.source, cfg)
    IN [dir |-> [d EXCEPT !.results = Append(@, a.result),
                          !.files_scanned =
                              IF a.result.parse_errors # <<>> THEN @ ELSE @ + 1,
                          !.total_contracts = @ + Len(a.result.contracts)],
        parser |-> a.parser]

\* the body of the loop: result = self.analyze_file(sol_file);
\* results.append(result); files_scanned += 1; total_contracts += len(...)
ScanOne(d, f, cfg, p) ==
    LET a == AnalyzeFile(p, f.name, f.input, f.source, cfg)
    IN [dir |-> [d EXCEPT !.results = Append(@, a.result),
                          !.files_scanned = @ + 1,
                          !.total_contracts = @ + Len(a.result.contracts)],
        parser |-> a.parser]

\* for sol_file in sol_files, from file number i on
RECURSIVE ScanFrom(_, _, _, _)
ScanFrom(d, i, cfg, p) ==
    IF i > Len(d.sol_files) THEN [dir |-> d, parser |-> p]
    ELSE LET s == ScanOne(d, d.sol_files[i], cfg, p)
         IN ScanFrom(s.dir, i + 1, cfg, s.parser)

\* scan_directory as one call
ScanDirectory(fs, cfg, p) ==
    ScanFrom([NoDir EXCEPT !.files = fs, !.sol_files = NotExcluded(fs)], 1, cfg, p)

\* ScanResult.all_vulnerabilities: vulns.extend(result.vulnerabilities) for
\* each result, in the order of the results
RECURSIVE all_vulnerabilities(_)
all_vulnerabilities(results) ==
    IF results = <<>> THEN <<>>
    ELSE Head(results).vulnerabilities \o all_vulnerabilities(Tail(results))

\* the parse errors of the results of a scan, file after file
RECURSIVE all_parse_errors(_)
all_parse_errors(results) ==
    IF results = <<>> THEN <<>>
    ELSE Head(results).parse_errors \o all_parse_errors(Tail(results))

DirConfigs == {DefaultConfig, [severity_threshold |-> "HIGH", include_info |-> FALSE]}

InitDir ==
    /\ pc = "scan"
    /\ config \in DirConfigs
    /\ dir \in {[NoDir EXCEPT !.files = fs] : fs \in Directories}
    /\ source = <<>>
    /\ contracts = <<>>
    /\ detected = <<>>
    /\ vulnerabilities = <<>>
    /\ entry = "none"
    /\ cmp = NoCmp
    /\ text = <<>>
    /\ scan = NoScan
    /\ IdleResult
    /\ cli = NoCli
    /\ run = NoRun
    /\ snippet = NoSnippet

\* scan_directory up to the loop: the files are listed and the excluded dropped
ListFiles ==
    /\ pc = "scan"
    /\ dir' = [dir EXCEPT !.sol_files = NotExcluded(dir.files)]
    /\ pc' = "loop"
    /\ UNCHANGED <<config, source, contracts, detected, vulnerabilities, entry, cmp,
                   text, scan, resultVars, cli, run, snippet>>

\* one iteration of the loop over sol_files
ScanFile ==
    /\ pc = "loop"
    /\ dir.iterated < Len(dir.sol_files)
    /\ LET s == ScanOne(dir, dir.sol_files[dir.iterated + 1], config, parser)
       IN /\ dir' = [s.dir EXCEPT !.iterated = @ + 1]
          /\ parser' = s.parser
    /\ UNCHANGED <<pc, config, source, contracts, detected, vulnerabilities, entry, cmp,
                   text, scan, input, parse_errors, analysis_time_ms, cli, run, snippet>>

\* the loop is over: return scan_result
ScanReturn ==
    /\ pc = "loop"
    /\ dir.iterated >= Len(dir.sol_files)
    /\ pc' = "done"
    /\ UNCHANGED <<config, source, contracts, detected, vulnerabilities, entry, cmp,
                   text, scan, resultVars, otherVars>>

NextDir == ListFiles \/ ScanFile \/ ScanReturn

SpecDir == InitDir /\ [][NextDir]_vars

----------------------------------------------------------------------------
(* Specification SpecRun: two analyze_source calls in progress on one        *)
(* detector, their parse and detection steps interleaved in any order.  The *)
(* detector has one parser (detector.py: self.parser), which both use.      *)

Workers == 1..2

RunUnits ==
    {[source |-> src, fault |-> 0] :
        src \in {UnitCritical, UnitMedium, UnitClean, UnitPair}}
    \cup {[source |-> UnitPair, fault |-> 2]}

NoOutcome == [parser |-> NoParser, raised |-> FALSE, contracts |-> <<>>, partial |-> <<>>]
NoResult == AnalysisResult(0, <<>>, <<>>, <<>>, 0)

InitRun ==
    /\ pc = "running"
    /\ config = DefaultConfig
    /\ run \in {[w \in Workers |->
                    [pc |-> "start", name |-> w, source |-> us[w].source,
                     fault |-> us[w].fault, parsed |-> NoOutcome, result |-> NoResult]] :
                us \in [Workers -> RunUnits]}
    /\ source = <<>>
    /\ contracts = <<>>
    /\ detected = <<>>
    /\ vulnerabilities = <<>>
    /\ entry = "none"
    /\ cmp = NoCmp
    /\ text = <<>>
    /\ scan = NoScan
    /\ IdleResult
    /\ dir = NoDir
    /\ cli = NoCli
    /\ snippet = NoSnippet

\* worker w: contracts = self.parser.parse(source_code), or the except branch
RunParse(w) ==
    /\ run[w].pc = "start"
    /\ LET pr == SolidityParser_parse(parser, run[w].source, run[w].fault)
       IN /\ parser' = pr.parser
          /\ run' = [run EXCEPT ![w] =
                       IF pr.raised
                       THEN [@ EXCEPT !.pc = "done", !.parsed = pr,
                                      !.result = OnParseError(run[w].name, pr).result]
                       ELSE [@ EXCEPT !.pc = "parsed", !.parsed = pr]]
    /\ UNCHANGED <<pc, config, source, contracts, detected, vulnerabilities, entry, cmp,
                   text, scan, input, parse_errors, analysis_time_ms, dir, cli, snippet>>

\* worker w: the detection loop, whose get_snippet reads the detector's parser
\* as it is now, then the filter and the sort
RunDetect(w) ==
    /\ run[w].pc = "parsed"
    /\ run' = [run EXCEPT ![w] =
                 [@ EXCEPT !.pc = "done",
                           !.result = RunDetection(run[w].name,
                                                   [run[w].parsed EXCEPT !.parser = parser],
                                                   config, "source").result]]
    /\ UNCHANGED <<pc, config, source, contracts, detected, vulnerabilities, entry, cmp,
                   text, scan, resultVars, dir, cli, snippet>>

NextRun == \E w \in Workers : RunParse(w) \/ RunDetect(w)

SpecRun == InitRun /\ [][NextRun]_vars

----------------------------------------------------------------------------
(* Specification SpecCli: run_scan (cli.py) on a target that is a file, a    *)
(* directory or neither, with any --severity.                               *)

SeverityNames == {"critical", "high", "medium", "low", "info"}

\* severity_from_string
severity_from_string(s) ==
    CASE s = "critical" -> "CRITICAL"
      [] s = "high" -> "HIGH"
      [] s = "medium" -> "MEDIUM"
      [] s = "low" -> "LOW"
      [] s = "info" -> "INFO"
      [] OTHER -> "LOW"

\* config = {'severity_threshold': ..., 'include_info': args.severity == 'info'}
CliConfig(s) ==
    [severity_threshold |-> severity_from_string(s), include_info |-> s = "info"]

\* sum(1 for v in self.vulnerabilities if v.severity == ...)
CountOf(vs, sev) == Cardinality({i \in 1..Len(vs) : vs[i].severity = sev})

\* sum(r.<severity>_count for r in self.results)
RECURSIVE SumCounts(_, _)
SumCounts(results, sev) ==
    IF results = <<>> THEN 0
    ELSE CountOf(Head(results).vulnerabilities, sev) + SumCounts(Tail(results), sev)

\* get_stats of an AnalysisResult
StatsOfResult(r) ==
    [critical |-> CountOf(r.vulnerabilities, "CRITICAL"),
     high |-> CountOf(r.vulnerabilities, "HIGH"),
     medium |-> CountOf(r.vulnerabilities, "MEDIUM"),
     low |-> CountOf(r.vulnerabilities, "LOW"),
     total |-> Len(r.vulnerabilities)]

\* get_stats of a ScanResult
StatsOfScan(d) ==
    [critical |-> SumCounts(d.results, "CRITICAL"),
     high |-> SumCounts(d.results, "HIGH"),
     medium |-> SumCounts(d.results, "MEDIUM"),
     low |-> SumCounts(d.results, "LOW"),
     total |-> Len(all_vulnerabilities(d.results))]

\* mutant: only CRITICAL and HIGH findings make the exit code 1
ExitCodeCriticalHighOnly(stats) ==
    IF stats.critical > 0 \/ stats.high > 0 THEN 1 ELSE 0

\* the exit code after the report: 1 if critical or high, elif total > 0: 1, else 0
ExitCode(stats) ==
    IF stats.critical > 0 \/ stats.high > 0 THEN 1
    ELSE IF stats.total > 0 THEN 1
    ELSE 0

\* the files a file target can be: target.is_file() holds, so the file exists
CliFiles ==
    {[source |-> src, input |-> inp] :
        src \in {UnitCritical, UnitMedium, UnitClean, UnitPair},
        inp \in {GoodInput, [GoodInput EXCEPT !.is_sol = FALSE],
                 [GoodInput EXCEPT !.too_large = TRUE],
                 [GoodInput EXCEPT !.readable = FALSE],
                 [GoodInput EXCEPT !.fault = 1]}}

\* the directories a directory target can be
CliDirectories == {fs \in Directories : Len(fs) < MaxFiles}

\* the command line and what an exception outside analyze_file's own
\* handlers (listing the directory, stat of the file) does to the run
CliRuns ==
    [target : {"missing", "file", "dir"}, severity : SeverityNames, raises : BOOLEAN,
     exit_code : {-1}, reported : {<<>>}, errors : {<<>>}]

InitCli ==
    /\ pc = "cli"
    /\ cli \in CliRuns
    /\ config = CliConfig(cli.severity)
    /\ \/ /\ cli.target = "file"
          /\ \E f \in CliFiles : source = f.source /\ input = f.input
          /\ dir = NoDir
       \/ /\ cli.target = "dir"
          /\ source = <<>> /\ input = GoodInput
          /\ dir \in {[NoDir EXCEPT !.files = fs] : fs \in CliDirectories}
       \/ /\ cli.target = "missing"
          /\ ~cli.raises
          /\ source = <<>> /\ input = GoodInput
          /\ dir = NoDir
    /\ contracts = <<>>
    /\ detected = <<>>
    /\ vulnerabilities = <<>>
    /\ parse_errors = <<>>
    /\ analysis_time_ms = 0
    /\ parser = NoParser
    /\ entry = "none"
    /\ cmp = NoCmp
    /\ text = <<>>
    /\ scan = NoScan
    /\ run = NoRun
    /\ snippet = NoSnippet

\* run_scan when target.is_file()
run_scan_file ==
    /\ pc = "cli"
    /\ cli.target = "file"
    /\ IF cli.raises
       THEN /\ cli' = [cli EXCEPT !.exit_code = 2]
            /\ UNCHANGED <<contracts, detected, vulnerabilities, parse_errors,
                           analysis_time_ms, parser, entry>>
       ELSE LET a == AnalyzeFile(parser, UnitName, input, source, config)
            IN /\ contracts' = a.result.contracts
               /\ detected' = a.detected
               /\ vulnerabilities' = a.result.vulnerabilities
               /\ parse_errors' = a.result.parse_errors
               /\ analysis_time_ms' = a.result.analysis_time_ms
               /\ parser' = a.parser
               /\ entry' = "file"
               /\ cli' = [cli EXCEPT !.exit_code = ExitCode(StatsOfResult(a.result)),
                                     !.reported = a.result.vulnerabilities,
                                     !.errors = a.result.parse_errors]
    /\ pc' = "exited"
    /\ UNCHANGED <<config, source, input, cmp, text, scan, dir, run, snippet>>

\* run_scan when target.is_dir()
run_scan_dir ==
    /\ pc = "cli"
    /\ cli.target = "dir"
    /\ IF cli.raises
       THEN /\ cli' = [cli EXCEPT !.exit_code = 2]
            /\ UNCHANGED <<dir, parser>>
       ELSE LET s == ScanDirectory(dir.files, config, parser)
            IN /\ dir' = [s.dir EXCEPT !.iterated = Len(s.dir.sol_files)]
               /\ parser' = s.parser
               /\ cli' = [cli EXCEPT !.exit_code = ExitCode(StatsOfScan(s.dir)),
                                     !.reported = all_vulnerabilities(s.dir.results),
                                     !.errors = all_parse_errors(s.dir.results)]
    /\ pc' = "exited"
    /\ UNCHANGED <<config, source, input, contracts, detected, vulnerabilities,
                   parse_errors, analysis_time_ms, entry, cmp, text, scan, run, snippet>>

\* run_scan when the target is neither: "Target not found", return 2
run_scan_missing ==
    /\ pc = "cli"
    /\ cli.target = "missing"
    /\ cli' = [cli EXCEPT !.exit_code = 2]
    /\ pc' = "exited"
    /\ UNCHANGED <<config, source, contracts, detected, vulnerabilities, entry, cmp,
                   text, scan, resultVars, dir, run, snippet>>

NextCli == run_scan_file \/ run_scan_dir \/ run_scan_missing

SpecCli == InitCli /\ [][NextCli]_vars

----------------------------------------------------------------------------
(* Specification SpecSnippet: a detector asks get_snippet for any line, in  *)
(* or outside the text the parser holds, with any context.                  *)

MaxContext == 3

\* the texts the parser can hold: none, one function, two contracts
SnippetTexts == {<<>>, UnitClean, UnitPair}

\* the lines asked for: from before the first line to after the last
QueryLines == (0 - MaxContext)..(NumLines(UnitPair) + MaxContext)

InitSnippet ==
    /\ pc = "query"
    /\ parser \in {[source |-> t] : t \in SnippetTexts}
    /\ snippet = NoSnippet
    /\ config = DefaultConfig
    /\ source = <<>>
    /\ contracts = <<>>
    /\ detected = <<>>
    /\ vulnerabilities = <<>>
    /\ entry = "none"
    /\ cmp = NoCmp
    /\ text = <<>>
    /\ scan = NoScan
    /\ input = GoodInput
    /\ parse_errors = <<>>
    /\ analysis_time_ms = 0
    /\ dir = NoDir
    /\ cli = NoCli
    /\ run = NoRun

\* get_snippet(line, context)
Lookup ==
    /\ pc = "query"
    /\ \E line \in QueryLines, context \in 0..MaxContext :
          snippet' = [line |-> line, context |-> context,
                      result |-> get_snippet(parser, line, context)]
    /\ pc' = "answered"
    /\ UNCHANGED <<config, source, contracts, detected, vulnerabilities, entry, cmp,
                   text, scan, resultVars, dir, cli, run>>

NextSnippet == Lookup

SpecSnippet == InitSnippet /\ [][NextSnippet]_vars

----------------------------------------------------------------------------
(* Properties *)

\* the rank of a severity, INFO lowest
SeverityRank(sev) ==
    CASE sev = "INFO" -> 0 [] sev = "LOW" -> 1 [] sev = "MEDIUM" -> 2
      [] sev = "HIGH" -> 3 [] sev = "CRITICAL" -> 4

\* the positions in detected of the findings of one type about one function
FindingsOf(vt, ci, fi) ==
    {i \in 1..Len(detected) :
        /\ detected[i].vuln_type = vt
        /\ detected[i].contract_name = ci
        /\ detected[i].function_name = fi}

\* ... and about one external call of it
FindingsOfCall(vt, ci, fi, k) ==
    {i \in FindingsOf(vt, ci, fi) : detected[i].external_call = k}

FunctionIds == {<<ci, fi>> \in (1..Len(contracts)) \X (1..MaxFunctions + 1) :
                   fi <= Len(contracts[ci].functions)}

ParsedFunction(id) == contracts[id[1]].functions[id[2]]
SourceFunction(id) == source[id[1]].functions[id[2]]

\* the state changes of function f on a line after that of its call k
ChangesAfter(f, k) ==
    {j \in 1..Len(f.state_changes) : f.state_changes[j].line > f.external_calls[k].line}

\* C1: after an analysis, every external call that has a state change on a
\* later line of its function has exactly one state_change_after_call
\* finding; the finding is CRITICAL and names the call and the first of the
\* later state changes.
C1_OneFindingPerCall ==
    pc = "returned" =>
        \A id \in FunctionIds :
            LET f == ParsedFunction(id)
            IN \A k \in 1..Len(f.external_calls) :
                 LET hits == FindingsOfCall("state_change_after_call", id[1], id[2], k)
                 IN ChangesAfter(f, k) # {} =>
                      /\ Cardinality(hits) = 1
                      /\ \A i \in hits :
                           /\ detected[i].severity = "CRITICAL"
                           /\ detected[i].state_change \in ChangesAfter(f, k)
                           /\ \A j \in ChangesAfter(f, k) :
                                f.state_changes[detected[i].state_change].line
                                    <= f.state_changes[j].line

\* a call followed by two state changes, and two calls followed by one
C1_Witness ==
    /\ pc = "returned"
    /\ \E id \in FunctionIds :
         LET f == ParsedFunction(id)
         IN /\ Len(f.external_calls) = 1
            /\ Cardinality(ChangesAfter(f, 1)) = 2
            /\ Cardinality(FindingsOf("state_change_after_call", id[1], id[2])) = 1

\* every state change of the function is on a line before all of its calls
ChangesBeforeCalls(f) ==
    \A j \in 1..Len(f.state_changes), k \in 1..Len(f.external_calls) :
        f.state_changes[j].line < f.external_calls[k].line

\* C2: a function whose state changes all lie before all of its external
\* calls gets no state_change_after_call finding, and a source whose only
\* function is such a function gets no CRITICAL finding at all.
C2_SafeOrderNoFinding ==
    pc = "returned" =>
        /\ \A id \in FunctionIds :
             ChangesBeforeCalls(ParsedFunction(id)) =>
                 FindingsOf("state_change_after_call", id[1], id[2]) = {}
        /\ (/\ Len(contracts) = 1
            /\ Len(contracts[1].functions) = 1
            /\ ChangesBeforeCalls(contracts[1].functions[1]))
           => /\ \A i \in 1..Len(vulnerabilities) : vulnerabilities[i].severity # "CRITICAL"
              /\ \A i \in 1..Len(detected) : detected[i].severity # "CRITICAL"

\* the only function writes, then calls; the analysis still reports something
C2_Witness ==
    /\ pc = "returned"
    /\ Len(contracts) = 1
    /\ Len(contracts[1].functions) = 1
    /\ Len(contracts[1].functions[1].state_changes) >= 1
    /\ Len(contracts[1].functions[1].external_calls) >= 1
    /\ ChangesBeforeCalls(contracts[1].functions[1])
    /\ Len(vulnerabilities) >= 1

\* the call's line lies within a loop span of the function in the source
InSomeLoop(id, k) ==
    \E sp \in SourceFunction(id).loops :
        /\ sp[1] <= ParsedFunction(id).external_calls[k].line
        /\ ParsedFunction(id).external_calls[k].line <= sp[2]

\* C3: in_loop is true exactly for the calls whose line lies within a loop
\* span of their function, and every call has one HIGH external_call_in_loop
\* finding if in_loop is true and none if it is false.
C3_InLoopIffInSpan ==
    pc = "returned" =>
        \A id \in FunctionIds :
            \A k \in 1..Len(ParsedFunction(id).external_calls) :
                LET call == ParsedFunction(id).external_calls[k]
                    hits == FindingsOfCall("external_call_in_loop", id[1], id[2], k)
                IN /\ call.in_loop <=> InSomeLoop(id, k)
                   /\ Cardinality(hits) = (IF call.in_loop THEN 1 ELSE 0)
                   /\ \A i \in hits : detected[i].severity = "HIGH"

\* one call on the last line of a loop and one call outside it
C3_Witness ==
    /\ pc = "returned"
    /\ \E id \in FunctionIds :
         LET f == ParsedFunction(id)
         IN /\ Len(f.external_calls) = 2
            /\ f.external_calls[1].in_loop
            /\ f.external_calls[1].loop_location[2] = f.external_calls[1].line
            /\ ~f.external_calls[2].in_loop
            /\ Cardinality(FindingsOf("external_call_in_loop", id[1], id[2])) = 1

\* a modifier of the function is declared by the contract with the guard shape
GuardedInSource(id) ==
    \E i \in 1..Len(SourceFunction(id).modifiers) :
        [name |-> SourceFunction(id).modifiers[i], guard_shape |-> TRUE]
            \in source[id[1]].modifiers

\* C4: a function has one MEDIUM missing_reentrancy_guard finding if it has
\* an external call, a state change, visibility public or external and no
\* modifier recognised as a reentrancy guard of its contract, and none
\* otherwise; a function using a guard modifier has none, whatever detector 1
\* reports.
C4_MissingGuardIff ==
    pc = "returned" =>
        \A id \in FunctionIds :
            LET f == ParsedFunction(id)
                hits == FindingsOf("missing_reentrancy_guard", id[1], id[2])
                due == /\ Len(f.external_calls) >= 1
                       /\ Len(f.state_changes) >= 1
                       /\ f.visibility \in {"public", "external"}
                       /\ ~GuardedInSource(id)
            IN /\ Cardinality(hits) = (IF due THEN 1 ELSE 0)
               /\ \A i \in hits : detected[i].severity = "MEDIUM"
               /\ GuardedInSource(id) => hits = {}

\* a guarded function that detector 1 reports and detector 3 does not
C4_Witness ==
    /\ pc = "returned"
    /\ \E id \in FunctionIds :
         /\ GuardedInSource(id)
         /\ FindingsOf("state_change_after_call", id[1], id[2]) # {}
         /\ FindingsOf("missing_reentrancy_guard", id[1], id[2]) = {}
         /\ ParsedFunction(id).visibility = "public"
         /\ Len(ParsedFunction(id).modifiers) = 2

\* C5: a delegatecall to a fixed target has no delegatecall_reentrancy
\* finding, a delegatecall to a parameter of the function has exactly one,
\* which is HIGH, and a call of any other type has none.
C5_DelegatecallFindings ==
    pc = "returned" =>
        \A id \in FunctionIds :
            \A k \in 1..Len(ParsedFunction(id).external_calls) :
                LET call == ParsedFunction(id).external_calls[k]
                    hits == FindingsOfCall("delegatecall_reentrancy", id[1], id[2], k)
                IN /\ (call.call_type = "delegatecall" /\ call.target = "fixed")
                        => hits = {}
                   /\ (call.call_type = "delegatecall" /\ call.target = "parameter")
                        => /\ Cardinality(hits) = 1
                           /\ \A i \in hits : detected[i].severity = "HIGH"
                   /\ call.call_type # "delegatecall" => hits = {}

\* a delegatecall to a parameter beside a delegatecall to a fixed target
C5_Witness ==
    /\ pc = "returned"
    /\ \E id \in FunctionIds :
         LET f == ParsedFunction(id)
         IN /\ Len(f.external_calls) = 2
            /\ f.external_calls[1].call_type = "delegatecall"
            /\ f.external_calls[1].target = "fixed"
            /\ f.external_calls[2].call_type = "delegatecall"
            /\ f.external_calls[2].target = "parameter"
            /\ Cardinality(FindingsOf("delegatecall_reentrancy", id[1], id[2])) = 1

CrossFindings(ci) == FindingsOf("cross_function_reentrancy", ci, 0)

\* C6: the cross_function_reentrancy findings of a contract are MEDIUM, each
\* names two distinct functions, and no two of them name the same two
\* functions, in either order, and the same identifier.
C6_OnePerUnorderedPair ==
    pc = "returned" =>
        \A ci \in 1..Len(contracts) :
            /\ \A i \in CrossFindings(ci) :
                 /\ detected[i].severity = "MEDIUM"
                 /\ detected[i].pair[1] # detected[i].pair[2]
            /\ \A i \in CrossFindings(ci), j \in CrossFindings(ci) :
                 (/\ i # j
                  /\ detected[i].variable = detected[j].variable)
                 => {detected[i].pair[1], detected[i].pair[2]}
                      # {detected[j].pair[1], detected[j].pair[2]}

\* two unguarded functions that each call before writing the same identifier
C6_Witness ==
    /\ pc = "returned"
    /\ \E ci \in 1..Len(contracts) :
         /\ Len(contracts[ci].functions) = 2
         /\ \A fi \in 1..2 :
              /\ CallBeforeWrite(contracts[ci].functions[fi], "x")
              /\ contracts[ci].functions[fi].modifiers = <<>>
         /\ Cardinality(CrossFindings(ci)) = 1

\* the finding belongs in the list analyze_file returns
Reportable(v) ==
    \/ SeverityRank(v.severity) >= SeverityRank(config.severity_threshold)
    \/ v.severity = "INFO" /\ config.include_info

\* C7: the list analyze_file returns holds every detected finding whose
\* severity is at or above the threshold, every INFO finding when
\* include_info is set, each of them once, and no other finding.
C7_FileFilterExact ==
    (pc = "returned" /\ entry = "file") =>
        /\ \A i \in 1..Len(detected) :
             Cardinality({j \in 1..Len(vulnerabilities) : vulnerabilities[j] = detected[i]})
                 = (IF Reportable(detected[i]) THEN 1 ELSE 0)
        /\ \A j \in 1..Len(vulnerabilities) :
             \E i \in 1..Len(detected) : detected[i] = vulnerabilities[j]

\* an INFO finding kept below the threshold while a LOW finding is dropped
C7_Witness ==
    /\ pc = "returned"
    /\ entry = "file"
    /\ config.include_info
    /\ config.severity_threshold = "MEDIUM"
    /\ \E i \in 1..Len(detected) :
         /\ detected[i].severity = "INFO"
         /\ \E j \in 1..Len(vulnerabilities) : vulnerabilities[j] = detected[i]
    /\ \E i \in 1..Len(detected) :
         /\ detected[i].severity = "LOW"
         /\ \A j \in 1..Len(vulnerabilities) : vulnerabilities[j] # detected[i]

\* C8: in the list returned by analyze_file or analyze_source no finding is
\* followed by a more severe one, and findings of equal severity are in the
\* order in which they were detected.
C8_SortedStable ==
    pc = "returned" =>
        \A i \in 1..Len(vulnerabilities), j \in 1..Len(vulnerabilities) :
            i < j =>
                /\ SeverityRank(vulnerabilities[i].severity)
                       >= SeverityRank(vulnerabilities[j].severity)
                /\ vulnerabilities[i].severity = vulnerabilities[j].severity
                       => vulnerabilities[i].id < vulnerabilities[j].id

\* two findings of equal severity were moved in front of a less severe one
C8_Witness ==
    /\ pc = "returned"
    /\ Len(vulnerabilities) = 3
    /\ vulnerabilities[1].id = 2
    /\ vulnerabilities[2].id = 3
    /\ vulnerabilities[3].id = 1
    /\ vulnerabilities[1].severity = vulnerabilities[2].severity

\* C9: for severities a, b, c exactly one of a < b, a = b, b < a holds; a < b
\* and b < c give a < c; a >= b holds exactly when a < b does not; and a < b
\* holds exactly when a comes before b in INFO, LOW, MEDIUM, HIGH, CRITICAL.
C9_StrictTotalOrder ==
    cmp.done =>
        /\ Cardinality({n \in 1..3 : <<cmp.lt_ab, cmp.eq_ab, cmp.lt_ba>>[n]}) = 1
        /\ (cmp.lt_ab /\ cmp.lt_bc) => cmp.lt_ac
        /\ cmp.ge_ab <=> ~cmp.lt_ab
        /\ cmp.lt_ab <=> SeverityRank(cmp.a) < SeverityRank(cmp.b)

\* a chain a < b < c has been compared
C9_Witness ==
    /\ cmp.done
    /\ cmp.a = "LOW" /\ cmp.b = "HIGH" /\ cmp.c = "CRITICAL"
    /\ cmp.lt_ab /\ cmp.lt_bc /\ cmp.lt_ac /\ ~cmp.ge_ab

\* the first position from `from` on that holds character c (0: none)
NextChar(t, from, c) ==
    LET S == {j \in from..Len(t) : t[j] = c}
    IN IF S = {} THEN 0 ELSE Min(S)

\* the first position from `from` on where a block comment's end begins
NextStarSlash(t, from) ==
    LET S == {j \in from..(Len(t) - 1) : t[j] = "*" /\ t[j + 1] = "/"}
    IN IF S = {} THEN 0 ELSE Min(S)

\* the positions from i on that belong to a string literal, a character
\* literal, a line comment or a block comment, delimiters included; position
\* i is in normal text
RECURSIVE OpaqueFrom(_, _)
OpaqueFrom(t, i) ==
    IF i > Len(t) THEN {}
    ELSE IF t[i] \in {"\"", "'"}
    THEN LET j == NextChar(t, i + 1, t[i])
         IN IF j = 0 THEN i..Len(t) ELSE (i..j) \cup OpaqueFrom(t, j + 1)
    ELSE IF t[i] = "/" /\ i < Len(t) /\ t[i + 1] = "/"
    THEN LET j == NextChar(t, i + 2, "\n")
         IN IF j = 0 THEN i..Len(t) ELSE (i..j) \cup OpaqueFrom(t, j + 1)
    ELSE IF t[i] = "/" /\ i < Len(t) /\ t[i + 1] = "*"
    THEN LET j == NextStarSlash(t, i + 2)
         IN IF j = 0 THEN i..Len(t) ELSE (i..(j + 1)) \cup OpaqueFrom(t, j + 2)
    ELSE OpaqueFrom(t, i + 1)

Opaque == OpaqueFrom(text, scan.start)

\* the nesting depth after position n, counted over the openers and closers
\* outside the positions op
DepthOutside(op, n) ==
    Cardinality({i \in scan.start..n : i \notin op /\ text[i] = scan.open})
    - Cardinality({i \in scan.start..n : i \notin op /\ text[i] = scan.close})

ScanStateOK ==
    scan.result # "none" =>
        LET op == Opaque
        IN /\ scan.mode \in NormalModes \cup StringModes \cup CommentModes
           /\ scan.depth = DepthOutside(op, scan.pos)
           /\ scan.result = "found" =>
                /\ scan.end = scan.pos
                /\ text[scan.end] = scan.close
                /\ scan.end \notin op
                /\ \A n \in scan.start..(scan.end - 1) : DepthOutside(op, n) > 0

\* a step that reads an opener or closer inside a literal or a comment
ReadsOpaqueBracket ==
    /\ scan.mode \in StringModes \cup CommentModes
    /\ scan'.pos = scan.pos + 1
    /\ text'[scan'.pos] \in {scan.open, scan.close}

\* C10: while extracting a balanced span the scanner is in normal text,
\* inside a string or inside a comment; an opener or closer read inside a
\* string literal, a character literal, a line comment or a block comment
\* leaves the nesting depth unchanged; the depth is the one counted over the
\* characters in normal text, and the end index returned is the position of
\* the closer at which that depth first returns to zero.
C10_OpaqueBracketsIgnored ==
    /\ []ScanStateOK
    /\ [][ReadsOpaqueBracket => scan'.depth = scan.depth]_vars

\* the span ends after a block comment that holds a closer
C10_Witness ==
    /\ scan.result = "found"
    /\ text[scan.start + 1] = "/"
    /\ text[scan.start + 2] = "*"
    /\ \E i \in scan.start..scan.end :
         /\ i \in Opaque
         /\ text[i] = scan.close
    /\ scan.end = scan.start + 6

----------------------------------------------------------------------------
(* Parse failure *)

\* the call got as far as self.parser.parse
ParseReached ==
    \/ entry = "source"
    \/ entry = "file" /\ input.exists /\ input.is_sol /\ ~input.too_large
                       /\ input.readable

\* C11: when parsing the source unit fails, the result carries one parse error
\* message, an empty contract list and an empty finding list: the contracts
\* recognised before the failure point are not in it.
C11_ParseFailureIsFatal ==
    (pc = "returned" /\ ParseReached /\ input.fault # 0)
        => /\ parse_errors = <<"Parse error">>
           /\ contracts = <<>>
           /\ vulnerabilities = <<>>
           /\ detected = <<>>

\* a two-contract unit whose second contract fails to parse after a first
\* contract that has a call followed by a state change
C11_Witness ==
    /\ pc = "returned"
    /\ entry = "file"
    /\ ParseReached
    /\ Len(source) = 2
    /\ input.fault = 2
    /\ source[1].functions[1].body = <<CallP, WriteX>>
    /\ parse_errors = <<"Parse error">>

----------------------------------------------------------------------------
(* Multi-file scans *)

\* the result a file gets when a fresh detector analyses it on its own
AloneResult(f) == AnalyzeFile(NoParser, f.name, f.input, f.source, config).result

FileFails(f) == f.input.too_large \/ ~f.input.readable \/ f.input.fault # 0

\* C12: in a multi-file scan the error of a file is recorded in that file's
\* own result and the scan continues: every file scanned so far has the result
\* it has when analysed alone, whatever files failed before it, and when the
\* scan returns every file that was not excluded has its result.
C12_FailureStaysInItsFile ==
    /\ Len(dir.results) <= Len(dir.sol_files)
    /\ \A i \in 1..Len(dir.results) :
          /\ dir.results[i] = AloneResult(dir.sol_files[i])
          /\ (dir.results[i].parse_errors # <<>>) <=> FileFails(dir.sol_files[i])
    /\ pc = "done" => Len(dir.results) = Len(dir.sol_files)

\* a scan that has returned, in which a file that fails to parse is followed
\* by a file with findings
C12_Witness ==
    /\ pc = "done"
    /\ Len(dir.results) = 3
    /\ dir.sol_files[2].input.fault # 0
    /\ dir.results[2].parse_errors = <<"Parse error">>
    /\ dir.results[3].vulnerabilities # <<>>
    /\ dir.results[1].contracts # <<>>

----------------------------------------------------------------------------
(* Analyses in progress at the same time *)

\* the result of a worker's unit analysed on its own by a fresh detector
SequentialResult(w) ==
    AnalyzeSource(NoParser, run[w].name, run[w].source, run[w].fault, config).result

\* C13: when two source units are analysed at the same time, each result,
\* with the snippet of each finding, is the result of the unit analysed alone.
C13_InterleavedAsSequential ==
    \A w \in DOMAIN run : run[w].pc = "done" => run[w].result = SequentialResult(w)

\* C14: the combined finding list of a scan is the concatenation of the
\* per-file lists re-sorted by severity descending: no finding in it is
\* followed by a strictly more severe one.
C14_MergedListSorted ==
    pc = "done" =>
        LET all == all_vulnerabilities(dir.results)
        IN /\ all = SortBySeverity(all)
           /\ \A i, j \in 1..Len(all) :
                 i < j => ~Severity__lt__(all[i].severity, all[j].severity)

----------------------------------------------------------------------------
(* The exit code of the scan command *)

\* run_scan got to the report: the target exists and nothing was raised
Reported == pc = "exited" /\ cli.target # "missing" /\ ~cli.raises

SevereReported ==
    \E i \in 1..Len(cli.reported) : cli.reported[i].severity \in {"CRITICAL", "HIGH"}

\* C15 as stated: the exit code is the vulnerabilities-found code when a
\* reported finding is CRITICAL or HIGH and the success code when none is.
C15_ExitCodeBySevereFindings ==
    Reported => /\ SevereReported => cli.exit_code = 1
                /\ ~SevereReported => cli.exit_code = 0

\* C15, amended: the exit code is the vulnerabilities-found code when at
\* least one finding is reported, whatever its severity (so in particular
\* when one is CRITICAL or HIGH), and the success code exactly when no
\* finding is reported, also when a file could not be analysed.
C15_ExitCodeByAnyFinding ==
    Reported => /\ SevereReported => cli.exit_code = 1
                /\ cli.reported # <<>> => cli.exit_code = 1
                /\ cli.reported = <<>> => cli.exit_code = 0

\* a scan that reports only a MEDIUM finding and exits with 1
C15_Witness ==
    /\ Reported
    /\ cli.reported # <<>>
    /\ \A i \in 1..Len(cli.reported) : cli.reported[i].severity = "MEDIUM"
    /\ cli.exit_code = 1

\* an error during the analysis: the target does not exist, an exception was
\* raised, or a file could not be analysed
AnalysisError ==
    cli.target = "missing" \/ cli.raises \/ cli.errors # <<>>

\* C16: the scan command returns 2 when there is an error during analysis,
\* a missing target and a file that cannot be analysed included; otherwise 0
\* exactly when no vulnerability is found and 1 exactly when one is found.
C16_ExitCodes ==
    pc = "exited" =>
        /\ AnalysisError => cli.exit_code = 2
        /\ ~AnalysisError => /\ cli.exit_code = 0 <=> cli.reported = <<>>
                             /\ cli.exit_code = 1 <=> cli.reported # <<>>

----------------------------------------------------------------------------
(* The one parser of a scan *)

\* file number i of the scan was parsed
ParsedFile(i) == dir.results[i].parse_errors = <<>>

----------------------------------------------------------------------------
(* Snippets *)

\* the lines of the text within context lines of the line asked for
Window == {l \in 1..NumLines(parser.source) :
              snippet.line - snippet.context <= l /\ l <= snippet.line + snippet.context}

\* C18: a snippet query never fails; for a line inside the text it returns at
\* most 2 * context + 1 consecutive lines, those of the range [line - context,
\* line + context] clipped to the text; for a line outside the text it
\* returns an empty snippet.
C18_SnippetWindow ==
    pc = "answered" =>
        LET r == snippet.result
            last == r.start_line + Len(r.code) - 1
        IN /\ Len(r.code) <= 2 * snippet.context + 1
           /\ IF snippet.line \in 1..NumLines(parser.source)
              THEN /\ r.start_line..last = Window
                   /\ \A k \in 1..Len(r.code) :
                         r.code[k] = SourceLines(parser)[r.start_line + k - 1]
                   /\ r.highlight_lines = {snippet.line}
              ELSE r = EmptySnippet

\* a query with the default context for the line before the last of the
\* two-contract text: the window is clipped at the end of the text
C18_Witness ==
    /\ pc = "answered"
    /\ snippet.context = DefaultContext
    /\ NumLines(parser.source) = NumLines(UnitPair)
    /\ snippet.line = NumLines(UnitPair) - 1
    /\ Len(snippet.result.code) = DefaultContext + 2

----------------------------------------------------------------------------
(* The parsed model after detection, and the order of detection *)

PatternRank(vt) ==
    CASE vt = "state_change_after_call" -> 1
      [] vt = "external_call_in_loop" -> 2
      [] vt = "missing_reentrancy_guard" -> 3
      [] vt = "delegatecall_reentrancy" -> 4
      [] vt = "cross_function_reentrancy" -> 5

\* finding a is built before finding b
BuiltBefore(a, b) ==
    \/ a.contract_name < b.contract_name
    \/ /\ a.contract_name = b.contract_name
       /\ \/ a.function_name # 0 /\ b.function_name = 0
          \/ a.function_name # 0 /\ a.function_name < b.function_name
          \/ /\ a.function_name = b.function_name
             /\ PatternRank(a.vuln_type) <= PatternRank(b.vuln_type)

\* C20: the findings of a contract are built function by function in
\* declaration order, for each function by detectors 1, 2, 3, 4 in that
\* order, and the contract-level findings of detector 5 after those of the
\* last function; each detector contributes its findings once per function,
\* detector 5 once per contract.
C20_DetectionOrder ==
    pc = "returned" =>
        /\ \A i, j \in 1..Len(detected) :
              i < j => BuiltBefore(detected[i], detected[j])
        /\ \A ci \in 1..Len(contracts) :
              /\ Cardinality(CrossFindings(ci)) = Len(detect_cross_function_reentrancy(contracts[ci]))
              /\ \A fi \in 1..Len(contracts[ci].functions) :
                    LET f == contracts[ci].functions[fi]
                        c == contracts[ci]
                    IN /\ Cardinality(FindingsOf("state_change_after_call", ci, fi))
                            = Len(detect_state_change_after_call(f, c))
                       /\ Cardinality(FindingsOf("external_call_in_loop", ci, fi))
                            = Len(detect_external_call_in_loop(f, c))
                       /\ Cardinality(FindingsOf("missing_reentrancy_guard", ci, fi))
                            = Len(detect_missing_reentrancy_guard(f, c))
                       /\ Cardinality(FindingsOf("delegatecall_reentrancy", ci, fi))
                            = Len(detect_delegatecall_reentrancy(f, c))

\* two functions with findings of detectors 1 and 3 each, then a
\* contract-level finding
C20_Witness ==
    /\ pc = "returned"
    /\ Len(contracts) = 1
    /\ Len(contracts[1].functions) = 2
    /\ Len(detected) >= 5
    /\ detected[1].vuln_type = "state_change_after_call"
    /\ detected[1].function_name = 1
    /\ detected[2].vuln_type = "missing_reentrancy_guard"
    /\ detected[3].function_name = 2
    /\ detected[Len(detected)].vuln_type = "cross_function_reentrancy"

----------------------------------------------------------------------------
(* analyze_source against analyze_file *)

\* a list without its INFO findings that lie below the severity threshold
RECURSIVE WithoutInfoBelow(_)
WithoutInfoBelow(vs) ==
    IF vs = <<>> THEN <<>>
    ELSE (IF /\ Head(vs).severity = "INFO"
             /\ Severity__lt__("INFO", config.severity_threshold)
          THEN <<>> ELSE <<Head(vs)>>)
         \o WithoutInfoBelow(Tail(vs))

\* the two entry points cannot differ under this configuration
SameRule == ~config.include_info \/ config.severity_threshold = "INFO"

\* C21: for the same detected findings and the same configuration, the
\* findings analyze_source returns are those analyze_file returns with the
\* INFO findings below the threshold removed, and the two lists are equal
\* when include_info is false or the threshold is INFO.
C21_SourceIsFileWithoutInfo ==
    pc = "returned" =>
        LET of_file == SortBySeverity(FilterFile(detected, config))
            of_source == SortBySeverity(FilterSource(detected, config))
        IN /\ entry = "source" =>
                /\ vulnerabilities = WithoutInfoBelow(of_file)
                /\ SameRule => vulnerabilities = of_file
           /\ entry = "file" =>
                /\ WithoutInfoBelow(vulnerabilities) = of_source
                /\ SameRule => vulnerabilities = of_source

\* analyze_source with include_info set and a threshold above INFO, on a
\* list with an INFO finding between two findings it keeps: analyze_file
\* would have kept all three
C21_Witness ==
    /\ pc = "returned"
    /\ entry = "source"
    /\ config.include_info
    /\ config.severity_threshold = "MEDIUM"
    /\ Len(detected) = 3
    /\ detected[1].severity = "MEDIUM"
    /\ detected[2].severity = "INFO"
    /\ detected[3].severity = "CRITICAL"
    /\ Len(vulnerabilities) = 2
    /\ Len(FilterFile(detected, config)) = 3

----------------------------------------------------------------------------
(* The counters of a scan *)

\* the sum of the contract counts of the results
RECURSIVE SumContracts(_)
SumContracts(results) ==
    IF results = <<>> THEN 0
    ELSE Len(Head(results).contracts) + SumContracts(Tail(results))

\* the .sol files of the directory that no exclude pattern matches
NonExcluded == {i \in 1..Len(dir.files) : ~dir.files[i].excluded}

\* C22: during and after scan_directory files_scanned is the number of
\* results and total_contracts the sum of their contract counts; when the scan
\* returns files_scanned is the number of non-excluded .sol files, those that
\* failed included, and each scan-level severity count is the sum of the
\* per-file counts, which is the count in the combined list.
C22_ScanCounters ==
    /\ dir.files_scanned = Len(dir.results)
    /\ dir.files_scanned = dir.iterated
    /\ dir.total_contracts = SumContracts(dir.results)
    /\ pc = "done" =>
          /\ dir.files_scanned = Cardinality(NonExcluded)
          /\ \A sev \in Severities :
                SumCounts(dir.results, sev)
                    = CountOf(all_vulnerabilities(dir.results), sev)
          /\ LET st == StatsOfScan(dir)
                 all == all_vulnerabilities(dir.results)
             IN /\ st.critical = CountOf(all, "CRITICAL")
                /\ st.high = CountOf(all, "HIGH")
                /\ st.medium = CountOf(all, "MEDIUM")
                /\ st.low = CountOf(all, "LOW")
                /\ st.critical + st.high + st.medium + st.low
                     + CountOf(all, "INFO") = st.total

\* a returned scan of three files: one excluded, one that failed to parse,
\* one with two contracts and findings
C22_Witness ==
    /\ pc = "done"
    /\ Len(dir.files) = 3
    /\ Cardinality(NonExcluded) = 2
    /\ dir.files_scanned = 2
    /\ dir.total_contracts = 2
    /\ \E i \in 1..2 : dir.results[i].parse_errors = <<"Parse error">>
    /\ \E i \in 1..2 : Len(dir.results[i].vulnerabilities) >= 2

----------------------------------------------------------------------------
(* The checks of analyze_file *)

\* the first of the five checks the file fails, by the message it gives
FirstFailure ==
    CASE ~input.exists -> "File not found"
      [] input.exists /\ ~input.is_sol -> "Not a Solidity file"
      [] input.exists /\ input.is_sol /\ input.too_large -> "File too large"
      [] input.exists /\ input.is_sol /\ ~input.too_large /\ ~input.readable
           -> "Error reading file"
      [] input.exists /\ input.is_sol /\ ~input.too_large /\ input.readable
           /\ input.fault # 0 -> "Parse error"
      [] OTHER -> "none"

\* C23: analyze_file checks that the file exists, has the suffix .sol, is
\* not above max_file_size, is readable and parses, in that order, and stops
\* at the first check that fails: the result then has exactly one parse_errors
\* entry, naming that failure, no findings, no contracts and analysis_time_ms
\* 0, and no detector has run (the parser was not even called unless the
\* failure is the parse); detectors run only when all five checks pass.
C23_ChecksInOrder ==
    (pc = "returned" /\ entry = "file") =>
        IF FirstFailure # "none"
        THEN /\ parse_errors = <<FirstFailure>>
             /\ vulnerabilities = <<>>
             /\ contracts = <<>>
             /\ analysis_time_ms = 0
             /\ detected = <<>>
             /\ FirstFailure # "Parse error" => parser = NoParser
        ELSE /\ parse_errors = <<>>
             /\ analysis_time_ms = 1
             /\ contracts = parse(source)
             /\ parser.source = source
             /\ Len(detected) >= Len(vulnerabilities)

\* a file that is not .sol, too large, unreadable and unparsable at once,
\* whose text has a call followed by a state change: only the suffix is named
C23_Witness ==
    /\ pc = "returned"
    /\ entry = "file"
    /\ input.exists /\ ~input.is_sol /\ input.too_large /\ ~input.readable
    /\ input.fault = 1
    /\ source[1].functions[1].body = <<CallP, WriteX>>
    /\ parse_errors = <<"Not a Solidity file">>
    /\ analysis_time_ms = 0

====
